---- MODULE Spec2Model ----
(***************************************************************************)
(* A state-machine model of the KenKen solver, src/lib/kenkenSolver.ts.    *)
(* One call of solveKenKen is unfolded into its steps: the size guard and  *)
(* the construction of the board, the pre-assignment loop, the scan of     *)
(* selectNext with the probes of getCandidates, and the recursion of       *)
(* backtrack, kept as an explicit stack of frames.                         *)
(***************************************************************************)
EXTENDS Integers, Sequences, FiniteSets, TLC

\* Largest target of a multi-cell cage in the puzzles explored.
MaxTarget == 6

(***************************************************************************)
(* Puzzles (src/unnamed/part_001, lines 1-10)                              *)
(***************************************************************************)
Ops == {"+", "-", "*", "/", "="}

Cage(cells, target, op) == [cells |-> cells, target |-> target, op |-> op]

Puzzle(size, cages) == [size |-> size, cages |-> cages]

\* The cells of an n x n board, 0-based [row, col].
Cells(n) == (0 .. n - 1) \X (0 .. n - 1)

CellsOfCage(cage) == {cage.cells[k] : k \in 1 .. Len(cage.cells)}

(***************************************************************************)
(* The constraint oracle: cageValidPartial (kenkenSolver.ts, 37-115)       *)
(***************************************************************************)
RECURSIVE SumSeq(_)
SumSeq(s) == IF s = << >> THEN 0 ELSE Head(s) + SumSeq(Tail(s))

\* prod over the non-zero values, 1 when there is none (lines 60-61)
RECURSIVE ProdNonZero(_)
ProdNonZero(s) ==
    IF s = << >> THEN 1
    ELSE (IF Head(s) # 0 THEN Head(s) ELSE 1) * ProdNonZero(Tail(s))

\* maxPossible of the '*' case: prod multiplied by n, k times (lines 64-65)
RECURSIVE TimesN(_, _, _)
TimesN(p, n, k) == IF k = 0 THEN p ELSE TimesN(p * n, n, k - 1)

Abs(x) == IF x < 0 THEN -x ELSE x

Max2(a, b) == IF a >= b THEN a ELSE b

Min2(a, b) == IF a <= b THEN a ELSE b

\* values[] of a cage under grid g, in the order of cage.cells (lines 42-46)
CageValues(g, cage) == [i \in 1 .. Len(cage.cells) |-> g[cage.cells[i]]]

CountUnassigned(values) == Cardinality({i \in DOMAIN values : values[i] = 0})

\* values.find(v => v !== 0)
FirstKnown(values) ==
    values[CHOOSE i \in DOMAIN values :
              values[i] # 0 /\ \A j \in 1 .. i - 1 : values[j] = 0]

\* |values[0] - values[1]| === target; values[1] is undefined for a cage of
\* one cell, the difference is NaN and the comparison false.
AbsDiffIs(values, target) ==
    Len(values) >= 2 /\ Abs(values[1] - values[2]) = target

\* max(values[0], values[1]) / min(values[0], values[1]) === target, in
\* floating point: NaN for a missing values[1]; for positive integers a / b
\* equals the integer target exactly when a = b * target.
\* MaxOverMinIs with the quotient truncated to an integer
MaxOverMinIsTruncated(values, target) ==
    /\ Len(values) >= 2
    /\ Min2(values[1], values[2]) # 0
    /\ Max2(values[1], values[2]) \div Min2(values[1], values[2]) = target

MaxOverMinIs(values, target) ==
    /\ Len(values) >= 2
    /\ Min2(values[1], values[2]) # 0
    /\ Max2(values[1], values[2]) = Min2(values[1], values[2]) * target

\* PlusValid with maxPossible computed as sum + 1 * unassigned
PlusValidNarrow(values, unassigned, target, n) ==
    LET sum == SumSeq(values)
    IN  IF unassigned = 0 THEN sum = target
        ELSE IF sum >= target THEN FALSE
        ELSE /\ target >= sum + 1 * unassigned
             /\ target <= sum + 1 * unassigned

PlusValid(values, unassigned, target, n) ==
    LET sum == SumSeq(values)
    IN  IF unassigned = 0 THEN sum = target
        ELSE IF sum >= target THEN FALSE
        ELSE /\ target >= sum + 1 * unassigned
             /\ target <= sum + n * unassigned

\* TimesValid with the early rejection of the '+' case, prod >= target
TimesValidEarly(values, unassigned, target, n) ==
    LET prod == ProdNonZero(values)
    IN  IF unassigned = 0 THEN prod = target
        ELSE IF prod >= target \/ target % prod # 0 THEN FALSE
        ELSE TimesN(prod, n, unassigned) >= target

TimesValid(values, unassigned, target, n) ==
    LET prod == ProdNonZero(values)
    IN  IF prod > target \/ target % prod # 0 THEN FALSE
        ELSE IF unassigned = 0 THEN prod = target
        ELSE TimesN(prod, n, unassigned) >= target

\* MinusValid that looks for the partner above the known value only
MinusValidAboveOnly(values, unassigned, target, n) ==
    IF Len(values) # 2
    THEN (IF unassigned = 0 THEN AbsDiffIs(values, target) ELSE TRUE)
    ELSE IF unassigned = 2 THEN TRUE
    ELSE IF unassigned = 0 THEN AbsDiffIs(values, target)
    ELSE LET known == FirstKnown(values)
             p1 == known + target
         IN  p1 >= 1 /\ p1 <= n

MinusValid(values, unassigned, target, n) ==
    IF Len(values) # 2
    THEN (IF unassigned = 0 THEN AbsDiffIs(values, target) ELSE TRUE)
    ELSE IF unassigned = 2 THEN TRUE
    ELSE IF unassigned = 0 THEN AbsDiffIs(values, target)
    ELSE LET known == FirstKnown(values)
             p1 == known + target
             p2 == known - target
         IN  (p1 >= 1 /\ p1 <= n) \/ (p2 >= 1 /\ p2 <= n)

\* DivValid without the known * target alternative
DivValidNumeratorOnly(values, unassigned, target, n) ==
    IF Len(values) # 2
    THEN (IF unassigned = 0 THEN MaxOverMinIs(values, target) ELSE TRUE)
    ELSE IF unassigned = 2 THEN TRUE
    ELSE IF unassigned = 0 THEN MaxOverMinIs(values, target)
    ELSE LET known == FirstKnown(values)
         IN  /\ target > 0
             /\ known % target = 0
             /\ known \div target >= 1
             /\ known \div target <= n

DivValid(values, unassigned, target, n) ==
    IF Len(values) # 2
    THEN (IF unassigned = 0 THEN MaxOverMinIs(values, target) ELSE TRUE)
    ELSE IF unassigned = 2 THEN TRUE
    ELSE IF unassigned = 0 THEN MaxOverMinIs(values, target)
    ELSE LET known == FirstKnown(values)
             asDen == known * target
         IN  \/ /\ target > 0
                /\ known % target = 0          \* Number.isInteger(asNum)
                /\ known \div target >= 1
                /\ known \div target <= n
             \/ (asDen >= 1 /\ asDen <= n)

EqValid(values, target) == values[1] = 0 \/ values[1] = target

cageValidPartial(g, cage, n) ==
    LET values == CageValues(g, cage)
        unassigned == CountUnassigned(values)
    IN  CASE cage.op = "+" -> PlusValid(values, unassigned, cage.target, n)
          [] cage.op = "*" -> TimesValid(values, unassigned, cage.target, n)
          [] cage.op = "-" -> MinusValid(values, unassigned, cage.target, n)
          [] cage.op = "/" -> DivValid(values, unassigned, cage.target, n)
          [] cage.op = "=" -> EqValid(values, cage.target)
          [] OTHER -> FALSE

(***************************************************************************)
(* The puzzles explored.  Single-cell cages take targets 0 .. n+1, so that *)
(* both out-of-range sides occur; multi-cell cages take 1 .. MaxTarget.    *)
(***************************************************************************)
SingleTargets(n) == 0 .. n + 1

MultiTargets == 1 .. MaxTarget

ArithOps == {"+", "-", "*", "/"}

\* sizes the guard of line 10 rejects, with and without a cage
Degenerate ==
    { Puzzle(n, cs) : n \in {-1, 0},
                      cs \in { << >>, << Cage(<< <<0, 0>> >>, 1, "=") >> } }

Size1 ==
    { Puzzle(1, << Cage(<< <<0, 0>> >>, t, op) >>) :
        t \in SingleTargets(1), op \in Ops }

\* 2 x 2, every cell its own '=' cage
Singles2 ==
    { Puzzle(2, << Cage(<< <<0, 0>> >>, t[1], "="),
                   Cage(<< <<0, 1>> >>, t[2], "="),
                   Cage(<< <<1, 0>> >>, t[3], "="),
                   Cage(<< <<1, 1>> >>, t[4], "=") >>) :
        t \in [1 .. 4 -> SingleTargets(2)] }

\* 2 x 2, one cage per row
Rows2 ==
    { Puzzle(2, << Cage(<< <<0, 0>>, <<0, 1>> >>, t1, o1),
                   Cage(<< <<1, 0>>, <<1, 1>> >>, t2, o2) >>) :
        t1 \in MultiTargets, o1 \in ArithOps,
        t2 \in MultiTargets, o2 \in ArithOps }

\* 2 x 2, two single cells on the diagonal and the anti-diagonal as a pair
Diag2 ==
    { Puzzle(2, << Cage(<< <<0, 0>> >>, t1, o1),
                   Cage(<< <<0, 1>>, <<1, 0>> >>, t2, o2),
                   Cage(<< <<1, 1>> >>, t3, o3) >>) :
        t1 \in SingleTargets(2), o1 \in {"=", "+", "-"},
        t2 \in MultiTargets, o2 \in ArithOps,
        t3 \in SingleTargets(2), o3 \in {"=", "*", "/"} }

\* 2 x 2, a cage of three cells and a single cell
Corner2 ==
    { Puzzle(2, << Cage(<< <<0, 0>>, <<0, 1>>, <<1, 0>> >>, t1, o1),
                   Cage(<< <<1, 1>> >>, t2, "=") >>) :
        t1 \in MultiTargets, o1 \in Ops, t2 \in 1 .. 2 }

\* 2 x 2, the whole board as one cage
Whole2 ==
    { Puzzle(2, << Cage(<< <<0, 0>>, <<0, 1>>, <<1, 0>>, <<1, 1>> >>,
                        t, o) >>) :
        t \in MultiTargets, o \in Ops }

Perms3 ==
    { p \in [1 .. 3 -> 1 .. 3] : \A i, j \in 1 .. 3 : p[i] = p[j] => i = j }

\* 3 x 3, every cell its own '=' cage, each row's targets a permutation
Singles3 ==
    { Puzzle(3, [k \in 1 .. 9 |->
                   Cage(<< <<(k - 1) \div 3, (k - 1) % 3>> >>,
                        rows[(k - 1) \div 3][((k - 1) % 3) + 1], "=")]) :
        rows \in [0 .. 2 -> Perms3] }

\* 3 x 3, cages of two and three cells under mixed operators
Mixed3 ==
    { Puzzle(3, << Cage(<< <<0, 0>>, <<0, 1>> >>, t1, o1),
                   Cage(<< <<0, 2>>, <<1, 2>> >>, t2, o2),
                   Cage(<< <<1, 0>>, <<1, 1>>, <<2, 0>> >>, t3, "*"),
                   Cage(<< <<2, 1>>, <<2, 2>> >>, t4, "-") >>) :
        t1 \in MultiTargets, o1 \in {"+", "-"},
        t2 \in MultiTargets, o2 \in {"*", "/"},
        t3 \in MultiTargets, t4 \in 1 .. 2 }

\* 3 x 3, one single cell under any operator the cage dialog offers, the
\* other eight cells one '=' cage (only its first cell is constrained)
RestOf3 ==
    << <<0, 1>>, <<0, 2>>, <<1, 0>>, <<1, 1>>, <<1, 2>>, <<2, 0>>, <<2, 1>>,
       <<2, 2>> >>

Odd3 ==
    { Puzzle(3, << Cage(<< <<0, 0>> >>, t1, o1), Cage(RestOf3, t2, "=") >>) :
        t1 \in 1 .. 3, o1 \in {"=", "-", "/"}, t2 \in 1 .. 3 }

\* examplePuzzles[3] (part_001, lines 195-205)
Example3 ==
    Puzzle(3, << Cage(<< <<0, 0>> >>, 1, "="), Cage(<< <<0, 1>> >>, 2, "="),
                 Cage(<< <<0, 2>> >>, 3, "="), Cage(<< <<1, 0>> >>, 2, "="),
                 Cage(<< <<1, 1>> >>, 3, "="), Cage(<< <<1, 2>> >>, 1, "="),
                 Cage(<< <<2, 0>> >>, 3, "="), Cage(<< <<2, 1>> >>, 1, "="),
                 Cage(<< <<2, 2>> >>, 2, "=") >>)

\* examplePuzzles[4] (part_001, lines 206-215)
Example4 ==
    Puzzle(4, << Cage(<< <<0, 0>>, <<0, 1>> >>, 3, "+"),
                 Cage(<< <<0, 2>>, <<1, 2>> >>, 4, "+"),
                 Cage(<< <<0, 3>>, <<1, 3>> >>, 3, "/"),
                 Cage(<< <<1, 0>>, <<2, 0>> >>, 3, "/"),
                 Cage(<< <<1, 1>>, <<2, 1>> >>, 2, "/"),
                 Cage(<< <<2, 2>>, <<2, 3>> >>, 3, "-"),
                 Cage(<< <<3, 0>>, <<3, 1>> >>, 4, "+"),
                 Cage(<< <<3, 2>>, <<3, 3>> >>, 1, "-") >>)

Puzzles ==
    Degenerate \cup Size1 \cup Singles2 \cup Rows2 \cup Diag2 \cup Corner2
        \cup Whole2 \cup Singles3 \cup Mixed3 \cup Odd3
        \cup {Example3, Example4}

\* Boards some of whose cells no cage owns: cageOf has no entry for them and
\* getCandidates (line 144) takes its "no cage" branch
Uncovered ==
    { Puzzle(2, << >>) }
        \cup { Puzzle(2, << Cage(<< <<0, 0>>, <<0, 1>> >>, t, o) >>) :
                  t \in MultiTargets, o \in ArithOps }
        \cup { Puzzle(3, << Cage(<< <<0, 0>> >>, t1, "="),
                            Cage(<< <<1, 1>>, <<1, 2>> >>, t2, o) >>) :
                  t1 \in 1 .. 3, t2 \in MultiTargets, o \in ArithOps }

(***************************************************************************)
(* State of one call of solveKenKen                                        *)
(***************************************************************************)
VARIABLES
    puzzle,       \* the argument of the call
    pc,           \* where the call stands
    grid,         \* grid[<<r, c>>], 0 = unassigned (line 15)
    rowUsed,      \* rowUsed[r][v] (line 21)
    colUsed,      \* colUsed[c][v] (line 24)
    cageOf,       \* cell -> index of its cage in puzzle.cages, 0 = none
    ci,           \* pre-assignment loop: index of the next cage (line 120)
    pos,          \* selectNext: the cell scanned, r * n + c (lines 155-156)
    v,            \* getCandidates: the value probed (line 140)
    out,          \* getCandidates: the candidates collected (line 138)
    best,         \* selectNext: << >> (null) or <<r, c>> (line 153)
    bestChoices,  \* selectNext (line 154)
    pick,         \* what selectNext returned: << >> (null) or <<r, c, cand>>
    stack,        \* the backtrack calls inside their for loop (line 185)
    ret,          \* the value the last finished backtrack call returned
    result,       \* "pending", "null", "grid" (the grid is returned), or
                  \* "throws" (the call ended with an exception)
    visited,      \* the stages this call has entered
    memo,         \* << >> or one remembered <<puzzle, result, grid>>
    entry,        \* history: grid, rowUsed and colUsed as the innermost
                  \* backtrack call found them (line 173), << >> otherwise
    \* the state of the GridInput component (part_001, lines 36-49); pz is
    \* the variable puzzle, gridSize is the state called size, null is
    \* << >> and a null error is ""
    gridSize,
    sol,
    selectedCells,
    isDragging,
    showCageModal,
    cageOp,
    cageTarget,
    error

vars ==
    << puzzle, pc, grid, rowUsed, colUsed, cageOf, ci, pos, v, out, best,
       bestChoices, pick, stack, ret, result, visited, memo, entry,
       gridSize, sol, selectedCells, isDragging, showCageModal, cageOp, cageTarget,
       error >>

input ==
    << gridSize, sol, selectedCells, isDragging, showCageModal, cageOp,
       cageTarget, error >>

\* part_001, line 19
DEFAULT_SIZE == 4

\* part_001, line 20
MIN_SIZE == 3

\* the component as it is mounted (lines 36-49); it plays no part inside a
\* call of solveKenKen
FreshInput ==
    /\ gridSize = DEFAULT_SIZE
    /\ sol = << >>
    /\ selectedCells = << >>
    /\ isDragging = FALSE
    /\ showCageModal = FALSE
    /\ cageOp = "+"
    /\ cageTarget = 1
    /\ error = ""

\* a structure the call has not built (yet)
Unbuilt == << >>

n == puzzle.size

cages == puzzle.cages

RowOf(p) == p \div n

ColOf(p) == p % n

CellAt(p) == <<RowOf(p), ColOf(p)>>

(***************************************************************************)
(* Construction (lines 9-32)                                               *)
(***************************************************************************)
\* the guard written as n <= 1
SizeGuardOffByOne(size) == size <= 1

\* the guard written as n < 0
SizeGuardNegativeOnly(size) == size < 0

\* line 10: if (n < 1) return null
SizeGuard(size) == size < 1

FreshGrid(size) == [cell \in Cells(size) |-> 0]

\* usage tables kept from the previous call when the size fits
FreshUsedReused(size) ==
    IF DOMAIN rowUsed = 0 .. size - 1 /\ size >= 1 THEN rowUsed
    ELSE [i \in 0 .. size - 1 |-> [w \in 0 .. size |-> FALSE]]

\* Array(n + 1).fill(false) for each of the n rows (columns)
FreshUsed(size) == [i \in 0 .. size - 1 |-> [w \in 0 .. size |-> FALSE]]

\* cageOf.set(`${r},${c}`, cage) for every cage in order: the last cage
\* registered for a cell wins; 0 stands for "no entry"
LastCageAt(cs, cell) ==
    LET owners == {i \in 1 .. Len(cs) :
                     \E k \in 1 .. Len(cs[i].cells) : cs[i].cells[k] = cell}
    IN  IF owners = {} THEN 0
        ELSE CHOOSE i \in owners : \A j \in owners : j <= i

BuildCageOf(size, cs) == [cell \in Cells(size) |-> LastCageAt(cs, cell)]

\* grid[r][c] = w together with rowUsed[r][w] = colUsed[c][w] = true
Put(g, cell, w) == [g EXCEPT ![cell] = w]

SetUsed(used, i, w, b) == [used EXCEPT ![i][w] = b]

Init0(ps) ==
    /\ puzzle \in ps
    /\ pc = "entry"
    /\ grid = Unbuilt
    /\ rowUsed = Unbuilt
    /\ colUsed = Unbuilt
    /\ cageOf = Unbuilt
    /\ ci = 0
    /\ pos = 0
    /\ v = 0
    /\ out = << >>
    /\ best = << >>
    /\ bestChoices = << >>
    /\ pick = << >>
    /\ stack = << >>
    /\ ret = FALSE
    /\ result = "pending"
    /\ visited = {}
    /\ memo = << >>
    /\ entry = Unbuilt
    /\ FreshInput

Init == Init0(Puzzles)

\* the three structures a backtrack call can change
Snapshot == <<grid, rowUsed, colUsed>>

\* the locals of selectNext and getCandidates, reset when a scan starts
\* and dropped when it returns
ScanReset ==
    /\ pos' = 0
    /\ v' = 0
    /\ out' = << >>
    /\ best' = << >>
    /\ bestChoices' = << >>

\* solveKenKen, lines 9-32: the size guard, then the fresh structures
Enter ==
    /\ pc = "entry"
    /\ IF SizeGuard(n)
       THEN /\ result' = "null"
            /\ pc' = "done"
            /\ visited' = {"guard"}
            /\ UNCHANGED <<grid, rowUsed, colUsed, cageOf, ci>>
       ELSE /\ grid' = FreshGrid(n)
            /\ rowUsed' = FreshUsed(n)
            /\ colUsed' = FreshUsed(n)
            /\ cageOf' = BuildCageOf(n, cages)
            /\ ci' = 1
            /\ pc' = "preseed"
            /\ visited' = {"build"}
            /\ UNCHANGED result
    /\ UNCHANGED input
    /\ UNCHANGED <<puzzle, pos, v, out, best, bestChoices, pick, stack, ret,
                   memo, entry>>

(***************************************************************************)
(* Pre-assignment of single-cell cages (lines 120-131)                     *)
(***************************************************************************)
\* lines 121-124
IsPreassigned(cage) ==
    (cage.op = "=" \/ Len(cage.cells) = 1) /\ Len(cage.cells) = 1

\* the check of line 127 without the usage tables
PreSeedRejectsRangeOnly(cage) ==
    LET w == cage.target
    IN  w < 1 \/ w > n

\* the check of line 127 with v >= n for v > n
PreSeedRejectsOffByOne(cage) ==
    LET cell == cage.cells[1]
        w == cage.target
    IN  w < 1 \/ w >= n \/ rowUsed[cell[1]][w] \/ colUsed[cell[2]][w]

\* line 127: v < 1 || v > n || rowUsed[r][v] || colUsed[c][v]
PreSeedRejects(cage) ==
    LET cell == cage.cells[1]
        w == cage.target
    IN  w < 1 \/ w > n \/ rowUsed[cell[1]][w] \/ colUsed[cell[2]][w]

\* one iteration of the loop of line 120
PreSeed ==
    /\ pc = "preseed"
    /\ ci <= Len(cages)
    /\ visited' = visited \cup {"preseed"}
    /\ LET cage == cages[ci]
           cell == cage.cells[1]
           w == cage.target
       IN  IF ~IsPreassigned(cage)
           THEN /\ ci' = ci + 1
                /\ UNCHANGED <<grid, rowUsed, colUsed, pc, result>>
           ELSE IF PreSeedRejects(cage)
           THEN /\ result' = "null"
                /\ pc' = "done"
                /\ UNCHANGED <<grid, rowUsed, colUsed, ci>>
           ELSE /\ grid' = Put(grid, cell, w)
                /\ rowUsed' = SetUsed(rowUsed, cell[1], w, TRUE)
                /\ colUsed' = SetUsed(colUsed, cell[2], w, TRUE)
                /\ ci' = ci + 1
                /\ UNCHANGED <<pc, result>>
    /\ UNCHANGED input
    /\ UNCHANGED <<puzzle, cageOf, pos, v, out, best, bestChoices, pick,
                   stack, ret, memo, entry>>

\* line 198: the loop is over, backtrack() is called and starts selectNext
StartSearch ==
    /\ pc = "preseed"
    /\ ci > Len(cages)
    /\ pc' = "select"
    /\ visited' = visited \cup {"search"}
    /\ ScanReset
    /\ entry' = Snapshot
    /\ UNCHANGED input
    /\ UNCHANGED <<puzzle, grid, rowUsed, colUsed, cageOf, ci, pick, stack,
                   ret, result, memo>>

(***************************************************************************)
(* selectNext and getCandidates (lines 136-168)                            *)
(***************************************************************************)
\* lines 155-157: the next cell at or after position p with grid[r][c] = 0,
\* n * n when the loops run out
NextUnassigned(p) ==
    LET free == {q \in p .. n * n - 1 : grid[CellAt(q)] = 0}
    IN  IF free = {} THEN n * n
        ELSE CHOOSE q \in free : \A q2 \in free : q <= q2

\* NextUnused that looks at the row only
NextUnusedRowOnly(p, w) ==
    LET free == {x \in w .. n : ~rowUsed[RowOf(p)][x]}
    IN  IF free = {} THEN n + 1
        ELSE CHOOSE x \in free : \A x2 \in free : x <= x2

\* lines 140-141: the next value at or after w not used in the row or the
\* column of the cell at position p, n + 1 when the loop runs out
NextUnused(p, w) ==
    LET free == {x \in w .. n :
                   ~rowUsed[RowOf(p)][x] /\ ~colUsed[ColOf(p)][x]}
    IN  IF free = {} THEN n + 1
        ELSE CHOOSE x \in free : \A x2 \in free : x <= x2

\* ProbeOk asked after the placement was taken back
ProbeOkAfterUndo(cell) ==
    IF cageOf[cell] = 0 THEN TRUE
    ELSE cageValidPartial(Put(grid, cell, 0), cages[cageOf[cell]], n)

\* ProbeOk that never asks the oracle
ProbeOkUnasked(cell) == TRUE

\* line 144: cage ? cageValidPartial(cage) : true
ProbeOk(cell) ==
    IF cageOf[cell] = 0 THEN TRUE
    ELSE cageValidPartial(grid, cages[cageOf[cell]], n)

\* lines 155-158: skip the assigned cells, call getCandidates on the next
ScanCell ==
    /\ pc = "select"
    /\ NextUnassigned(pos) < n * n
    /\ pos' = NextUnassigned(pos)
    /\ v' = 1
    /\ out' = << >>
    /\ pc' = "probe"
    /\ UNCHANGED input
    /\ UNCHANGED <<puzzle, grid, rowUsed, colUsed, cageOf, ci, best,
                   bestChoices, pick, stack, ret, result, visited, memo,
                   entry>>

\* line 167: the loops are over: return best with its choices, or null
ScanEnd ==
    /\ pc = "select"
    /\ NextUnassigned(pos) = n * n
    /\ pick' = IF best # << >> THEN <<best[1], best[2], bestChoices>>
               ELSE << >>
    /\ pc' = "picked"
    /\ ScanReset
    /\ UNCHANGED input
    /\ UNCHANGED <<puzzle, grid, rowUsed, colUsed, cageOf, ci, stack, ret,
                   result, visited, memo, entry>>

\* lines 141-143: place the next unused value and mark it
ProbePlace ==
    /\ pc = "probe"
    /\ NextUnused(pos, v) <= n
    /\ LET w == NextUnused(pos, v)
       IN  /\ v' = w
           /\ grid' = Put(grid, CellAt(pos), w)
           /\ rowUsed' = SetUsed(rowUsed, RowOf(pos), w, TRUE)
           /\ colUsed' = SetUsed(colUsed, ColOf(pos), w, TRUE)
    /\ pc' = "probed"
    /\ UNCHANGED input
    /\ UNCHANGED <<puzzle, cageOf, ci, pos, out, best, bestChoices, pick,
                   stack, ret, result, visited, memo, entry>>

\* ProbeUndo that clears the row mark but leaves the column mark
ProbeUndoRowOnly ==
    /\ pc = "probed"
    /\ out' = IF ProbeOk(CellAt(pos)) THEN Append(out, v) ELSE out
    /\ rowUsed' = SetUsed(rowUsed, RowOf(pos), v, FALSE)
    /\ grid' = Put(grid, CellAt(pos), 0)
    /\ v' = v + 1
    /\ pc' = "probe"
    /\ UNCHANGED input
    /\ UNCHANGED <<puzzle, colUsed, cageOf, ci, pos, best, bestChoices, pick,
                   stack, ret, result, visited, memo, entry>>

\* lines 144-147: ask the oracle, undo the marks and the placement, keep
\* the value if the oracle accepted it
ProbeUndo ==
    /\ pc = "probed"
    /\ out' = IF ProbeOk(CellAt(pos)) THEN Append(out, v) ELSE out
    /\ rowUsed' = SetUsed(rowUsed, RowOf(pos), v, FALSE)
    /\ colUsed' = SetUsed(colUsed, ColOf(pos), v, FALSE)
    /\ grid' = Put(grid, CellAt(pos), 0)
    /\ v' = v + 1
    /\ pc' = "probe"
    /\ UNCHANGED input
    /\ UNCHANGED <<puzzle, cageOf, ci, pos, best, bestChoices, pick, stack,
                   ret, result, visited, memo, entry>>

\* Improves that lets a later cell with as many candidates win
ImprovesOrTies(cand) == best = << >> \/ Len(cand) <= Len(bestChoices)

\* line 160: !best || cand.length < bestChoices.length
Improves(cand) == best = << >> \/ Len(cand) < Len(bestChoices)

\* line 149 and lines 159-164: getCandidates returns out; selectNext
\* returns null on an empty list, returns at once on a single candidate,
\* and otherwise keeps the best cell so far and moves on
CandidatesDone ==
    /\ pc = "probe"
    /\ NextUnused(pos, v) > n
    /\ IF Len(out) = 0
       THEN /\ pick' = << >>
            /\ pc' = "picked"
            /\ ScanReset
       ELSE IF Improves(out) /\ Len(out) = 1
       THEN /\ pick' = <<RowOf(pos), ColOf(pos), out>>
            /\ pc' = "picked"
            /\ ScanReset
       ELSE /\ best' = IF Improves(out) THEN CellAt(pos) ELSE best
            /\ bestChoices' = IF Improves(out) THEN out ELSE bestChoices
            /\ pos' = pos + 1
            /\ v' = 0
            /\ out' = << >>
            /\ pc' = "select"
            /\ UNCHANGED pick
    /\ UNCHANGED input
    /\ UNCHANGED <<puzzle, grid, rowUsed, colUsed, cageOf, ci, stack, ret,
                   result, visited, memo, entry>>

(***************************************************************************)
(* backtrack (lines 173-193) and the return of solveKenKen (line 198)      *)
(***************************************************************************)
\* AllCagesValid that asks only the cage of the cell placed last
AllCagesValidLastOnly ==
    stack # << >> =>
        cageValidPartial(grid, cages[cageOf[<<stack[Len(stack)].r,
                                              stack[Len(stack)].c>>]], n)

\* lines 177-179: every cage passes the oracle on the current grid
AllCagesValid ==
    \A i \in 1 .. Len(cages) : cageValidPartial(grid, cages[i], n)

\* a backtrack call inside its loop: the cell and candidates selectNext
\* gave it, the loop index, and (history) what the call found on entry
Frame(r, c, cand) ==
    [r |-> r, c |-> c, cand |-> cand, i |-> 1, entry |-> entry]

Top == stack[Len(stack)]

Pop == SubSeq(stack, 1, Len(stack) - 1)

\* Advance that stays on the same candidate
AdvanceStuck == stack

\* the top frame moved on to its next candidate
Advance == [stack EXCEPT ![Len(stack)].i = @ + 1]

\* lines 175-180: selectNext returned null: the call returns whether every
\* cage passes the oracle
Leaf ==
    /\ pc = "picked"
    /\ pick = << >>
    /\ ret' = AllCagesValid
    /\ pc' = "return"
    /\ entry' = Unbuilt
    /\ UNCHANGED input
    /\ UNCHANGED <<puzzle, grid, rowUsed, colUsed, cageOf, ci, pos, v, out,
                   best, bestChoices, pick, stack, result, visited, memo>>

\* lines 182-185: selectNext returned a cell: enter the loop over its
\* candidates
Descend ==
    /\ pc = "picked"
    /\ pick # << >>
    /\ stack' = Append(stack, Frame(pick[1], pick[2], pick[3]))
    /\ pick' = << >>
    /\ pc' = "try"
    /\ entry' = Unbuilt
    /\ UNCHANGED input
    /\ UNCHANGED <<puzzle, grid, rowUsed, colUsed, cageOf, ci, pos, v, out,
                   best, bestChoices, ret, result, visited, memo>>

\* lines 185-187: place the next candidate and mark it
TryPlace ==
    /\ pc = "try"
    /\ Top.i <= Len(Top.cand)
    /\ LET w == Top.cand[Top.i]
       IN  /\ grid' = Put(grid, <<Top.r, Top.c>>, w)
           /\ rowUsed' = SetUsed(rowUsed, Top.r, w, TRUE)
           /\ colUsed' = SetUsed(colUsed, Top.c, w, TRUE)
    /\ pc' = "placed"
    /\ UNCHANGED input
    /\ UNCHANGED <<puzzle, cageOf, ci, pos, v, out, best, bestChoices, pick,
                   stack, ret, result, visited, memo, entry>>

\* UndoTop that clears the marks but leaves the value in the grid
UndoTopKeepsValue ==
    LET w == Top.cand[Top.i]
    IN  /\ grid' = grid
        /\ rowUsed' = SetUsed(rowUsed, Top.r, w, FALSE)
        /\ colUsed' = SetUsed(colUsed, Top.c, w, FALSE)
        /\ stack' = Advance
        /\ pc' = "try"

\* UndoTop that clears the row mark but leaves the column mark
UndoTopRowOnly ==
    LET w == Top.cand[Top.i]
    IN  /\ grid' = Put(grid, <<Top.r, Top.c>>, 0)
        /\ rowUsed' = SetUsed(rowUsed, Top.r, w, FALSE)
        /\ colUsed' = colUsed
        /\ stack' = Advance
        /\ pc' = "try"

\* lines 189-190 followed by the loop's step: undo the top frame's
\* placement and move to its next candidate
UndoTop ==
    LET w == Top.cand[Top.i]
    IN  /\ grid' = Put(grid, <<Top.r, Top.c>>, 0)
        /\ rowUsed' = SetUsed(rowUsed, Top.r, w, FALSE)
        /\ colUsed' = SetUsed(colUsed, Top.c, w, FALSE)
        /\ stack' = Advance
        /\ pc' = "try"

\* line 188: cageValidPartial(cage) && backtrack(): the oracle is asked
\* again on the owning cage; if it accepts, backtrack is called and starts
\* its selectNext, otherwise the placement is undone.  Line 183 takes the
\* owning cage without a test: for a cell no cage owns it is undefined and
\* line 38 throws a TypeError, which ends solveKenKen
Recheck ==
    /\ pc = "placed"
    /\ IF cageOf[<<Top.r, Top.c>>] = 0
       THEN /\ pc' = "done"
            /\ result' = "throws"
            /\ stack' = << >>
            /\ UNCHANGED <<grid, rowUsed, colUsed, pos, v, out, best,
                           bestChoices, entry>>
       ELSE IF cageValidPartial(grid, cages[cageOf[<<Top.r, Top.c>>]], n)
       THEN /\ pc' = "select"
            /\ ScanReset
            /\ entry' = Snapshot
            /\ UNCHANGED <<grid, rowUsed, colUsed, stack, result>>
       ELSE /\ UndoTop
            /\ UNCHANGED <<pos, v, out, best, bestChoices, entry, result>>
    /\ UNCHANGED input
    /\ UNCHANGED <<puzzle, cageOf, ci, pick, ret, visited, memo>>

\* line 192: the candidates are exhausted: return false
Exhausted ==
    /\ pc = "try"
    /\ Top.i > Len(Top.cand)
    /\ stack' = Pop
    /\ ret' = FALSE
    /\ pc' = "return"
    /\ UNCHANGED input
    /\ UNCHANGED <<puzzle, grid, rowUsed, colUsed, cageOf, ci, pos, v, out,
                   best, bestChoices, pick, result, visited, memo, entry>>

\* line 188, backtrack() returned true inside the loop: return true,
\* nothing is undone
Succeed ==
    /\ pc = "return"
    /\ stack # << >>
    /\ ret
    /\ stack' = Pop
    /\ UNCHANGED input
    /\ UNCHANGED <<puzzle, pc, grid, rowUsed, colUsed, cageOf, ci, pos, v,
                   out, best, bestChoices, pick, ret, result, visited, memo,
                   entry>>

\* lines 188-190, backtrack() returned false inside the loop: undo and go
\* on with the next candidate
Retry ==
    /\ pc = "return"
    /\ stack # << >>
    /\ ~ret
    /\ UndoTop
    /\ UNCHANGED input
    /\ UNCHANGED <<puzzle, cageOf, ci, pos, v, out, best, bestChoices, pick,
                   ret, result, visited, memo, entry>>

\* line 198: return backtrack() ? grid : null
Finish ==
    /\ pc = "return"
    /\ stack = << >>
    /\ result' = IF ret THEN "grid" ELSE "null"
    /\ pc' = "done"
    /\ UNCHANGED input
    /\ UNCHANGED <<puzzle, grid, rowUsed, colUsed, cageOf, ci, pos, v, out,
                   best, bestChoices, pick, stack, ret, visited, memo, entry>>

Next ==
    \/ Enter
    \/ PreSeed
    \/ StartSearch
    \/ ScanCell
    \/ ScanEnd
    \/ ProbePlace
    \/ ProbeUndo
    \/ CandidatesDone
    \/ Leaf
    \/ Descend
    \/ TryPlace
    \/ Recheck
    \/ Exhausted
    \/ Succeed
    \/ Retry
    \/ Finish

Spec == Init /\ [][Next]_vars

\* the same call on boards that may leave cells uncovered
InitUncovered == Init0(Puzzles \cup Uncovered)

SpecUncovered == InitUncovered /\ [][Next]_vars

\* the same call under the scheduling of a single synchronous thread: a
\* statement that can run does run
SpecLive == Spec /\ WF_vars(Next)

(***************************************************************************)
(* Several calls in a row.  A caller (handleSolve, part_001 line 77) may   *)
(* call solveKenKen again once a call has returned.  What the finished     *)
(* call left behind stays where it is until the new call builds its own    *)
(* structures; the caller may remember one finished call to compare with.  *)
(***************************************************************************)
CallPuzzles ==
    Degenerate
        \cup { p \in Size1 : p.cages[1].target = 1 }
        \cup { p \in Diag2 : /\ p.cages[1].target = 1 /\ p.cages[1].op = "="
                             /\ p.cages[2].target = 3
                             /\ p.cages[3].target = 2 /\ p.cages[3].op = "=" }
        \cup { p \in Rows2 : p.cages[1].op = "+" /\ p.cages[2].op = "-"
                             /\ p.cages[1].target = 3 /\ p.cages[2].target < 3 }
        \cup { p \in Odd3 : p.cages[1].target = 1 /\ p.cages[2].target = 2 }
        \cup { Example3, Example4 }

Remembered ==
    [p |-> puzzle, res |-> result,
     g |-> IF result = "grid" THEN grid ELSE Unbuilt]

Again ==
    /\ pc = "done"
    /\ puzzle' \in CallPuzzles
    /\ memo' \in {memo, <<Remembered>>}
    /\ pc' = "entry"
    /\ result' = "pending"
    /\ visited' = {}
    /\ ci' = 0
    /\ ret' = FALSE
    /\ UNCHANGED input
    /\ UNCHANGED <<grid, rowUsed, colUsed, cageOf, pos, v, out, best,
                   bestChoices, pick, stack, entry>>

InitCalls == Init0(CallPuzzles)

NextCalls == Next \/ Again

SpecCalls == InitCalls /\ [][NextCalls]_vars

(***************************************************************************)
(* The oracle on its own.  cageValidPartial reads nothing but the cage, n  *)
(* and the grid values of the cage's cells, so it is applied to every cage *)
(* shape, operator (one outside Op included: the switch has a default),    *)
(* target and assignment of 0 .. n to the cage's cells, whether or not a   *)
(* search would produce that assignment.                                   *)
(***************************************************************************)
MaxOracleN == 3

MaxOracleTarget == 12

OracleOps == Ops \cup {"^"}

\* cages of one, two and three cells
OracleCells(k) == SubSeq(<< <<0, 0>>, <<0, 1>>, <<1, 0>> >>, 1, k)

OraclePuzzles ==
    { Puzzle(size, << Cage(OracleCells(k), t, o) >>) :
        size \in 1 .. MaxOracleN, k \in 1 .. 3, t \in 0 .. MaxOracleTarget,
        o \in OracleOps }

\* the grids of p that hold 0 outside its cage and 0 .. n inside
OracleGrids(p) ==
    LET cs == p.cages[1].cells
    IN  { [cell \in Cells(p.size) |->
              IF \E k \in 1 .. Len(cs) : cs[k] = cell
              THEN a[CHOOSE k \in 1 .. Len(cs) : cs[k] = cell] ELSE 0] :
            a \in [1 .. Len(cs) -> 0 .. p.size] }

InitOracle ==
    /\ puzzle \in { p \in OraclePuzzles :
                       CellsOfCage(p.cages[1]) \subseteq Cells(p.size) }
    /\ grid \in OracleGrids(puzzle)
    /\ pc = "asked"
    /\ rowUsed = Unbuilt
    /\ colUsed = Unbuilt
    /\ cageOf = Unbuilt
    /\ ci = 0
    /\ pos = 0
    /\ v = 0
    /\ out = << >>
    /\ best = << >>
    /\ bestChoices = << >>
    /\ pick = << >>
    /\ stack = << >>
    /\ ret = FALSE
    /\ result = "pending"
    /\ visited = {}
    /\ memo = << >>
    /\ entry = Unbuilt
    /\ FreshInput

\* one call of cageValidPartial(cage); ret holds what it returned
Judge ==
    /\ pc = "asked"
    /\ ret' = cageValidPartial(grid, cages[1], n)
    /\ pc' = "judged"
    /\ UNCHANGED input
    /\ UNCHANGED <<puzzle, grid, rowUsed, colUsed, cageOf, ci, pos, v, out,
                   best, bestChoices, pick, stack, result, visited, memo,
                   entry>>

NextOracle == Judge

SpecOracle == InitOracle /\ [][NextOracle]_vars

(***************************************************************************)
(* The GridInput component (src/unnamed/part_001): the caller of           *)
(* solveKenKen.  Every handler is one action; while the component is idle  *)
(* (pc = "idle") no call of solveKenKen is under way, and handleSolve      *)
(* starts one, which runs to its end before any other handler can (the     *)
(* call is synchronous).  The cage dialog is a full-screen overlay (line   *)
(* 386), so the handlers of the cells and of the toolbar are closed to the *)
(* pointer while it is shown.                                              *)
(***************************************************************************)
\* the sizes the modelled user selects out of MIN_SIZE .. MAX_SIZE
UISizes == {MIN_SIZE, DEFAULT_SIZE}

\* the cells the modelled user presses, crosses, or removes the cage of
Handled == {<<0, 0>>, <<0, 1>>, <<3, 3>>}

\* the longest drag explored
MaxDrag == 2

\* what the modelled user enters in the dialog
OpInputs == {"+", "-"}

TargetInputs == {0, 1, 2}

\* the locals and the result of a call of solveKenKen
call ==
    << pc, grid, rowUsed, colUsed, cageOf, ci, pos, v, out, best,
       bestChoices, pick, stack, ret, result, visited, memo, entry >>

Idle == pc = "idle"

\* no call is under way and the dialog is not in the pointer's way
Open == Idle /\ ~showCageModal

\* lines 194-281
examplePuzzles(k) == IF k = 3 THEN Example3.cages ELSE Example4.cages

InitInput ==
    /\ puzzle = Puzzle(DEFAULT_SIZE, << >>)
    /\ pc = "idle"
    /\ grid = Unbuilt
    /\ rowUsed = Unbuilt
    /\ colUsed = Unbuilt
    /\ cageOf = Unbuilt
    /\ ci = 0
    /\ pos = 0
    /\ v = 0
    /\ out = << >>
    /\ best = << >>
    /\ bestChoices = << >>
    /\ pick = << >>
    /\ stack = << >>
    /\ ret = FALSE
    /\ result = "pending"
    /\ visited = {}
    /\ memo = << >>
    /\ entry = Unbuilt
    /\ FreshInput

\* lines 53-58 (the select fires onChange for an other size only)
handleSizeChange ==
    /\ Open
    /\ \E newSize \in UISizes \ {gridSize} :
          /\ gridSize' = newSize
          /\ puzzle' = Puzzle(newSize, << >>)
    /\ sol' = << >>
    /\ UNCHANGED <<selectedCells, isDragging, showCageModal, cageOp,
                   cageTarget, error>>
    /\ UNCHANGED call

\* lines 61-69
isPuzzleComplete ==
    \A cell \in Cells(gridSize) :
        \E i \in 1 .. Len(cages) : cell \in CellsOfCage(cages[i])

\* lines 71-81 up to the call; the button is disabled while
\* isPuzzleComplete() is false (line 339), the handler tests it again
handleSolve ==
    /\ Open
    /\ isPuzzleComplete
    /\ IF ~isPuzzleComplete
       THEN UNCHANGED pc
       ELSE pc' = "entry"
    /\ UNCHANGED <<puzzle, grid, rowUsed, colUsed, cageOf, ci, pos, v, out,
                   best, bestChoices, pick, stack, ret, result, visited,
                   memo, entry>>
    /\ UNCHANGED input

\* lines 77-80, once solveKenKen has returned; an exception leaves the
\* handler before setSol.  The locals of the call are gone
SolveReturns ==
    /\ pc = "done"
    /\ IF result = "throws"
       THEN UNCHANGED <<sol, error>>
       ELSE /\ sol' = IF result = "grid" THEN grid ELSE << >>
            /\ error' = IF result = "grid" THEN ""
                        ELSE "No solution found for this puzzle!"
    /\ pc' = "idle"
    /\ grid' = Unbuilt
    /\ rowUsed' = Unbuilt
    /\ colUsed' = Unbuilt
    /\ cageOf' = Unbuilt
    /\ ci' = 0
    /\ ScanReset
    /\ pick' = << >>
    /\ stack' = << >>
    /\ ret' = FALSE
    /\ result' = "pending"
    /\ visited' = {}
    /\ entry' = Unbuilt
    /\ UNCHANGED <<puzzle, memo, gridSize, selectedCells, isDragging,
                   showCageModal, cageOp, cageTarget>>

\* lines 84-87
handleCellMouseDown ==
    /\ Open
    /\ \E cell \in Handled \cap Cells(gridSize) :
          selectedCells' = <<cell>>
    /\ isDragging' = TRUE
    /\ UNCHANGED <<puzzle, gridSize, sol, showCageModal, cageOp, cageTarget,
                   error>>
    /\ UNCHANGED call

\* lines 88-95
handleCellMouseEnter ==
    /\ Open
    /\ Len(selectedCells) < MaxDrag
    /\ \E cell \in Handled \cap Cells(gridSize) :
          selectedCells' =
              IF isDragging
                  /\ \A k \in 1 .. Len(selectedCells) :
                        selectedCells[k] # cell
              THEN Append(selectedCells, cell)
              ELSE selectedCells
    /\ UNCHANGED <<puzzle, gridSize, sol, isDragging, showCageModal, cageOp,
                   cageTarget, error>>
    /\ UNCHANGED call

\* line 152: onMouseLeave of the table
handleMouseLeave ==
    /\ Open
    /\ isDragging' = FALSE
    /\ UNCHANGED <<puzzle, gridSize, sol, selectedCells, showCageModal,
                   cageOp, cageTarget, error>>
    /\ UNCHANGED call

\* lines 100-101: some selected cell lies in an existing cage
overlap ==
    \E k \in 1 .. Len(selectedCells) : \E i \in 1 .. Len(cages) :
        selectedCells[k] \in CellsOfCage(cages[i])

\* lines 96-109: onMouseUp of the table
handleMouseUp ==
    /\ Open
    /\ isDragging' = FALSE
    /\ IF Len(selectedCells) > 0
       THEN IF overlap
            THEN /\ error' = "Selected cells overlap with an existing cage."
                 /\ selectedCells' = << >>
                 /\ UNCHANGED showCageModal
            ELSE /\ showCageModal' = TRUE
                 /\ UNCHANGED <<error, selectedCells>>
       ELSE UNCHANGED <<error, selectedCells, showCageModal>>
    /\ UNCHANGED <<puzzle, gridSize, sol, cageOp, cageTarget>>
    /\ UNCHANGED call

\* line 401: onChange of the operator select of the dialog
setCageOp ==
    /\ Idle
    /\ showCageModal
    /\ \E o \in OpInputs \ {cageOp} : cageOp' = o
    /\ UNCHANGED <<puzzle, gridSize, sol, selectedCells, isDragging,
                   showCageModal, cageTarget, error>>
    /\ UNCHANGED call

\* line 415: onChange of the target input of the dialog
setCageTarget ==
    /\ Idle
    /\ showCageModal
    /\ \E t \in TargetInputs \ {cageTarget} : cageTarget' = t
    /\ UNCHANGED <<puzzle, gridSize, sol, selectedCells, isDragging,
                   showCageModal, cageOp, error>>
    /\ UNCHANGED call

\* lines 111-125
handleCageModalSubmit ==
    /\ Idle
    /\ showCageModal
    /\ IF cageTarget = 0 \/ Len(selectedCells) = 0
       THEN UNCHANGED <<puzzle, selectedCells, showCageModal, cageOp,
                        cageTarget, error>>
       ELSE /\ puzzle' =
                  Puzzle(puzzle.size,
                         Append(cages, Cage(selectedCells, cageTarget, cageOp)))
            /\ selectedCells' = << >>
            /\ showCageModal' = FALSE
            /\ cageOp' = "+"
            /\ cageTarget' = 1
            /\ error' = ""
    /\ UNCHANGED <<gridSize, sol, isDragging>>
    /\ UNCHANGED call

\* lines 127-131
handleCageModalClose ==
    /\ Idle
    /\ showCageModal
    /\ showCageModal' = FALSE
    /\ selectedCells' = << >>
    /\ error' = ""
    /\ UNCHANGED <<puzzle, gridSize, sol, isDragging, cageOp, cageTarget>>
    /\ UNCHANGED call

\* prev.cages.filter((_, i) => i !== idx), idx counted from 1
WithoutCage(idx) ==
    SubSeq(cages, 1, idx - 1) \o SubSeq(cages, idx + 1, Len(cages))

\* lines 188-191
handleRemoveCage ==
    /\ Open
    /\ \E idx \in 1 .. Len(cages) :
          /\ CellsOfCage(cages[idx]) \cap Handled # {}
          /\ puzzle' = Puzzle(puzzle.size, WithoutCage(idx))
    /\ sol' = << >>
    /\ UNCHANGED <<gridSize, selectedCells, isDragging, showCageModal,
                   cageOp, cageTarget, error>>
    /\ UNCHANGED call

\* lines 283-288
handleClearAll ==
    /\ Open
    /\ puzzle' = Puzzle(gridSize, << >>)
    /\ sol' = << >>
    /\ error' = ""
    /\ selectedCells' = << >>
    /\ UNCHANGED <<gridSize, isDragging, showCageModal, cageOp, cageTarget>>
    /\ UNCHANGED call

\* lines 290-300; every size of UISizes has an example
handleLoadExample ==
    /\ Open
    /\ puzzle' = Puzzle(gridSize, examplePuzzles(gridSize))
    /\ sol' = << >>
    /\ error' = ""
    /\ selectedCells' = << >>
    /\ UNCHANGED <<gridSize, isDragging, showCageModal, cageOp, cageTarget>>
    /\ UNCHANGED call

NextInput ==
    \/ handleSizeChange
    \/ handleSolve
    \/ SolveReturns
    \/ handleCellMouseDown
    \/ handleCellMouseEnter
    \/ handleMouseLeave
    \/ handleMouseUp
    \/ setCageOp
    \/ setCageTarget
    \/ handleCageModalSubmit
    \/ handleCageModalClose
    \/ handleRemoveCage
    \/ handleClearAll
    \/ handleLoadExample
    \/ Next

SpecInput == InitInput /\ [][NextInput]_vars

(***************************************************************************)
(* Reference notions the properties are stated with: well-formed puzzles   *)
(* and valid assignments, found by enumeration.                            *)
(***************************************************************************)
\* every cell of the board lies in exactly one cage, once
Partitions(p) ==
    /\ \A i \in 1 .. Len(p.cages) :
          /\ CellsOfCage(p.cages[i]) \subseteq Cells(p.size)
          /\ Cardinality(CellsOfCage(p.cages[i])) = Len(p.cages[i].cells)
    /\ \A cell \in Cells(p.size) :
          Cardinality({i \in 1 .. Len(p.cages) :
                         cell \in CellsOfCage(p.cages[i])}) = 1

\* n >= 1, the cages partition the board, '-' and '/' cages have two cells
\* and '=' cages one
WellFormed(p) ==
    /\ p.size >= 1
    /\ Partitions(p)
    /\ \A i \in 1 .. Len(p.cages) :
          /\ p.cages[i].op \in Ops
          /\ p.cages[i].op \in {"-", "/"} => Len(p.cages[i].cells) = 2
          /\ p.cages[i].op = "=" => Len(p.cages[i].cells) = 1

RECURSIVE ProductOf(_)
ProductOf(s) == IF s = << >> THEN 1 ELSE Head(s) * ProductOf(Tail(s))

\* the cage's cells combine under its operator to exactly its target
CageExact(g, cage) ==
    LET values == [i \in 1 .. Len(cage.cells) |-> g[cage.cells[i]]]
    IN  CASE cage.op = "+" -> SumSeq(values) = cage.target
          [] cage.op = "*" -> ProductOf(values) = cage.target
          [] cage.op = "-" ->
                Len(values) = 2 /\ Abs(values[1] - values[2]) = cage.target
          [] cage.op = "/" ->
                /\ Len(values) = 2
                /\ Max2(values[1], values[2])
                      = Min2(values[1], values[2]) * cage.target
          [] cage.op = "=" -> Len(values) = 1 /\ values[1] = cage.target
          [] OTHER -> FALSE

\* every row and every column of g is a permutation of 1 .. k
IsLatin(g, k) ==
    /\ \A cell \in Cells(k) : g[cell] \in 1 .. k
    /\ \A i \in 0 .. k - 1 : \A a, b \in 0 .. k - 1 :
          a # b => g[<<i, a>>] # g[<<i, b>>] /\ g[<<a, i>>] # g[<<b, i>>]

IsSolution(g, p) ==
    /\ IsLatin(g, p.size)
    /\ \A i \in 1 .. Len(p.cages) : CageExact(g, p.cages[i])

PermsOf(k) ==
    { q \in [1 .. k -> 1 .. k] : \A i, j \in 1 .. k : q[i] = q[j] => i = j }

\* the grid whose rows are rows[0], rows[1], ...
GridOfRows(rows, k) == [cell \in Cells(k) |-> rows[cell[1]][cell[2] + 1]]

\* enumeration of the grids over 1 .. k, row by row (a row that repeats a
\* value cannot be part of a valid assignment)
HasSolution(p) ==
    \E rows \in [0 .. p.size - 1 -> PermsOf(p.size)] :
        IsSolution(GridOfRows(rows, p.size), p)

Done == pc = "done"

Unassigned == {cell \in Cells(n) : grid[cell] = 0}

SingleCages == {i \in 1 .. Len(cages) : Len(cages[i].cells) = 1}

(***************************************************************************)
(* C1.  Soundness: for a well-formed puzzle, a returned grid holds a value *)
(* of 1 .. n in every cell, every row and column is a permutation of       *)
(* 1 .. n and every cage combines to exactly its target.                   *)
(***************************************************************************)
C1_Soundness ==
    (Done /\ result = "grid" /\ WellFormed(puzzle))
        => IsSolution(grid, puzzle)

(***************************************************************************)
(* C2.  Completeness, unsolvable direction: for a well-formed puzzle with  *)
(* no valid assignment, solveKenKen returns null.                          *)
(***************************************************************************)
C2_UnsolvableReturnsNull ==
    (Done /\ WellFormed(puzzle) /\ ~HasSolution(puzzle)) => result = "null"

(***************************************************************************)
(* C3.  Completeness, solvable direction: for a well-formed puzzle with at *)
(* least one valid assignment, solveKenKen returns a grid, not null.       *)
(***************************************************************************)
C3_SolvableReturnsGrid ==
    (Done /\ WellFormed(puzzle) /\ HasSolution(puzzle)) => result = "grid"

\* a solvable well-formed 3 x 3 puzzle with multi-cell cages went through
\* the search and a grid came back
C3_Witness ==
    /\ Done
    /\ WellFormed(puzzle)
    /\ HasSolution(puzzle)
    /\ n = 3
    /\ SingleCages = {}
    /\ "search" \in visited
    /\ result = "grid"

(***************************************************************************)
(* C4.  Pre-seed rejection: a puzzle with a single-cell cage whose target  *)
(* is outside [1, n], or with two single-cell cages of equal target in one *)
(* row or one column, is answered null before backtrack / selectNext is    *)
(* ever invoked: the call never leaves the pre-assignment loop (for a size *)
(* the guard rejects, it never gets that far).                             *)
(***************************************************************************)
SingleOutOfRange ==
    \E i \in SingleCages : cages[i].target < 1 \/ cages[i].target > n

SinglesClash ==
    \E i, j \in SingleCages :
        /\ i # j
        /\ cages[i].target = cages[j].target
        /\ \/ cages[i].cells[1][1] = cages[j].cells[1][1]
           \/ cages[i].cells[1][2] = cages[j].cells[1][2]

C4_PreSeedRejection ==
    (SingleOutOfRange \/ SinglesClash)
        => /\ pc \in {"entry", "preseed", "done"}
           /\ "search" \notin visited
           /\ Done => result = "null"
           /\ (Done /\ n >= 1) => visited = {"build", "preseed"}

\* two single-cell cages with equal in-range targets in one line: the
\* second is rejected after the first was placed
C4_Witness ==
    /\ Done
    /\ n >= 1
    /\ SinglesClash
    /\ ~SingleOutOfRange
    /\ ci > 1
    /\ result = "null"

(***************************************************************************)
(* C5.  Scenario D as claimed: a puzzle of size 1 is answered null by the  *)
(* size guard.                                                             *)
(***************************************************************************)
C5_Size1ReturnsNull == (Done /\ n = 1) => result = "null"

ScenarioD == Puzzle(1, << Cage(<< <<0, 0>> >>, 1, "=") >>)

\* C5 as amended: the size guard rejects only n < 1; the puzzle of size 1
\* with the single cage {cells [(0,0)], target 1, op =} passes it and the
\* call returns the 1 x 1 grid [[1]].
C5_Size1ReturnsGrid ==
    (Done /\ puzzle = ScenarioD)
        => /\ result = "grid"
           /\ grid = [cell \in Cells(1) |-> 1]
           /\ "guard" \notin visited

C5_Witness == Done /\ puzzle = ScenarioD /\ result = "grid"

(***************************************************************************)
(* C6.  Idempotence: a call on a puzzle returns what an earlier call on    *)
(* the same puzzle returned (both null, or grids equal cell by cell),      *)
(* whatever was called in between: nothing an earlier call left behind     *)
(* reaches a later one.  Checked under SpecCalls.                          *)
(***************************************************************************)
C6_Idempotent ==
    (Done /\ memo # << >> /\ memo[1].p = puzzle)
        => /\ memo[1].res = result
           /\ result = "grid" => memo[1].g = grid

\* a second call on a remembered puzzle has returned a grid
C6_Witness ==
    /\ Done
    /\ memo # << >>
    /\ memo[1].p = puzzle
    /\ n >= 2
    /\ result = "grid"

(***************************************************************************)
(* C7.  Scenario A generalized: when every cell is its own single-cell '=' *)
(* cage and the targets form a Latin square over 1 .. n, the call returns  *)
(* exactly the grid of targets.                                            *)
(***************************************************************************)
AllSinglesEq ==
    /\ n >= 1
    /\ Partitions(puzzle)
    /\ \A i \in 1 .. Len(cages) :
          Len(cages[i].cells) = 1 /\ cages[i].op = "="

\* cell (r, c) holds the target of the cage on (r, c)
TargetGrid ==
    [cell \in Cells(n) |->
        cages[CHOOSE i \in 1 .. Len(cages) : cages[i].cells[1] = cell].target]

C7_TemplateReturned ==
    (Done /\ AllSinglesEq /\ IsLatin(TargetGrid, n))
        => result = "grid" /\ grid = TargetGrid

\* the bundled 3 x 3 example has been solved
C7_Witness == Done /\ puzzle = Example3 /\ result = "grid"

C9_SizeGuard ==
    n < 1
        => /\ pc \in {"entry", "done"}
           /\ grid = Unbuilt /\ rowUsed = Unbuilt /\ colUsed = Unbuilt
           /\ cageOf = Unbuilt
           /\ visited \subseteq {"guard"}
           /\ Done => result = "null" /\ visited = {"guard"}

\* a puzzle of size 0 or less that carries a cage has been answered
C9_Witness == Done /\ n < 1 /\ cages # << >> /\ result = "null"

(***************************************************************************)
(* C10.  Dead end is failure: a backtrack call whose scan met an           *)
(* unassigned cell with no candidate returns false; no backtrack call      *)
(* returns true (Solved) while a cell is unassigned.                       *)
(***************************************************************************)
C10_DeadEndIsFailure == (pc = "return" /\ ret) => Unassigned = {}

(***************************************************************************)
(* Notions the oracle's properties are stated with                         *)
(***************************************************************************)
Judged == pc = "judged"

TheCage == cages[1]

\* the values of the cage's cells, in the cage's order
TheValues == [k \in 1 .. Len(TheCage.cells) |-> grid[TheCage.cells[k]]]

Blank == {k \in 1 .. Len(TheValues) : TheValues[k] = 0}

\* the cage shapes a well-formed puzzle has
UsualShape ==
    \/ TheCage.op \in {"+", "*"}
    \/ TheCage.op \in {"-", "/"} /\ Len(TheCage.cells) = 2
    \/ TheCage.op = "=" /\ Len(TheCage.cells) = 1

\* the grids that keep every assigned cell of the cage and give each of its
\* unassigned cells a value of 1 .. n
Completions ==
    { [cell \in Cells(n) |->
          IF cell \in CellsOfCage(TheCage) /\ grid[cell] = 0
          THEN f[cell] ELSE grid[cell]] :
        f \in [CellsOfCage(TheCage) -> 1 .. n] }

Extendable == \E g \in Completions : CageExact(g, TheCage)

(***************************************************************************)
(* C11.  Oracle pruning soundness: for a '+' or '*' cage, a two-cell '-'   *)
(* or '/' cage or a one-cell '=' cage and any assignment of 0 .. n to its  *)
(* cells, if the unassigned cells can be given values of 1 .. n that make  *)
(* the cage combine to exactly its target, cageValidPartial returns true.  *)
(***************************************************************************)
C11_PruningSound == (Judged /\ UsualShape /\ Extendable) => ret

\* a '*' cage of three cells, one assigned, whose product already is the
\* target: the other two can both be 1, and the oracle accepted
C11_Witness ==
    /\ Judged
    /\ TheCage.op = "*"
    /\ Cardinality(Blank) = 2
    /\ Len(TheValues) = 3
    /\ ProdNonZero(TheValues) = TheCage.target
    /\ Extendable
    /\ ret

(***************************************************************************)
(* C12.  Oracle exactness on full cages: when every cell of the cage holds *)
(* a value of 1 .. n, cageValidPartial returns true if and only if the sum *)
(* is the target for '+', the product is the target for '*', |v0 - v1| is  *)
(* the target for a two-cell '-', max / min is the target for a two-cell   *)
(* '/', and v0 is the target for '='.                                      *)
(***************************************************************************)
FullCage == Blank = {} /\ \A k \in 1 .. Len(TheValues) : TheValues[k] \in 1 .. n

\* max / min = target as a quotient of positive integers
QuotientIs(a, b, target) == Max2(a, b) = Min2(a, b) * target

ExactlyMet ==
    CASE TheCage.op = "+" -> SumSeq(TheValues) = TheCage.target
      [] TheCage.op = "*" -> ProductOf(TheValues) = TheCage.target
      [] TheCage.op = "-" -> Abs(TheValues[1] - TheValues[2]) = TheCage.target
      [] TheCage.op = "/" ->
            QuotientIs(TheValues[1], TheValues[2], TheCage.target)
      [] TheCage.op = "=" -> TheValues[1] = TheCage.target

C12_ExactOnFull ==
    (/\ Judged
     /\ FullCage
     /\ TheCage.op \in Ops
     /\ TheCage.op \in {"-", "/"} => Len(TheValues) = 2)
        => (ret <=> ExactlyMet)

\* a full two-cell '/' cage holding 3 and 2 with target 1: the quotient is
\* not the target and the oracle rejected it
C12_Witness ==
    /\ Judged
    /\ FullCage
    /\ TheCage.op = "/"
    /\ TheCage.target = 1
    /\ TheValues = <<3, 2>>
    /\ ~ret

(***************************************************************************)
(* C13.  The oracle on partial cages: with at least one cell unassigned,   *)
(* cageValidPartial returns, for '+', false if sum >= target and otherwise *)
(* whether sum + unassigned <= target <= sum + n * unassigned; for '*',    *)
(* false if prod > target or target mod prod # 0 and otherwise whether     *)
(* prod * n^unassigned >= target; for a two-cell '-' with one value k,     *)
(* whether k + target or k - target lies in 1 .. n; for a two-cell '/'     *)
(* with one value k, whether k / target is an integer of 1 .. n or         *)
(* k * target lies in 1 .. n; true for a two-cell '-' or '/' with both     *)
(* cells unassigned; false for an unknown operator.                        *)
(***************************************************************************)
\* the sum and the product of the assigned values
PartialSum == SumSeq(TheValues)

PartialProd == ProductOf([k \in 1 .. Len(TheValues) |->
                             IF TheValues[k] = 0 THEN 1 ELSE TheValues[k]])

\* the one assigned value of a two-cell cage with one cell unassigned
TheKnown == TheValues[CHOOSE k \in 1 .. 2 : TheValues[k] # 0]

PlusRule ==
    IF PartialSum >= TheCage.target THEN FALSE
    ELSE /\ PartialSum + Cardinality(Blank) <= TheCage.target
         /\ TheCage.target <= PartialSum + n * Cardinality(Blank)

TimesRule ==
    IF PartialProd > TheCage.target \/ TheCage.target % PartialProd # 0
    THEN FALSE
    ELSE PartialProd * n ^ Cardinality(Blank) >= TheCage.target

MinusRule ==
    \/ TheKnown + TheCage.target \in 1 .. n
    \/ TheKnown - TheCage.target \in 1 .. n

DivRule ==
    \/ \E q \in 1 .. n : q * TheCage.target = TheKnown
    \/ TheKnown * TheCage.target \in 1 .. n

C13_PartialRules ==
    (Judged /\ Blank # {})
        => /\ TheCage.op = "+" => (ret <=> PlusRule)
           /\ TheCage.op = "*" => (ret <=> TimesRule)
           /\ (TheCage.op = "-" /\ Len(TheValues) = 2
                   /\ Cardinality(Blank) = 1) => (ret <=> MinusRule)
           /\ (TheCage.op = "/" /\ Len(TheValues) = 2
                   /\ Cardinality(Blank) = 1) => (ret <=> DivRule)
           /\ (TheCage.op \in {"-", "/"} /\ Len(TheValues) = 2
                   /\ Cardinality(Blank) = 2) => ret
           /\ TheCage.op \notin Ops => ~ret

\* a two-cell '-' cage with target 2 holding 3 and an unassigned cell, on a
\* 3 x 3 board: only 3 - 2 is a legal partner, and the oracle accepted
C13_Witness ==
    /\ Judged
    /\ n = 3
    /\ TheCage.op = "-"
    /\ TheCage.target = 2
    /\ TheValues = <<0, 3>>
    /\ ret

(***************************************************************************)
(* Notions the properties of the scan are stated with                      *)
(***************************************************************************)
\* the values not marked used in the row and the column of a cell
Unmarked(cell) ==
    {w \in 1 .. n : ~rowUsed[cell[1]][w] /\ ~colUsed[cell[2]][w]}

\* the unmarked values the owning cage's oracle accepts once placed
Allowed(cell) ==
    {w \in Unmarked(cell) :
        cageOf[cell] # 0 =>
            cageValidPartial(Put(grid, cell, w), cages[cageOf[cell]], n)}

RangeOf(s) == {s[k] : k \in 1 .. Len(s)}

Ascending(s) == \A j, k \in 1 .. Len(s) : j < k => s[j] < s[k]

\* getCandidates is at its return (line 149): the loop over v has run out
CandidatesReturn ==
    pc = "probe" /\ \A x \in v .. n : x \notin Unmarked(CellAt(pos))

(***************************************************************************)
(* C14.  Candidate set: for an unassigned cell, getCandidates returns, in  *)
(* strictly ascending order, exactly the values of 1 .. n not marked used  *)
(* in its row or its column for which the owning cage passes               *)
(* cageValidPartial with the value placed; a cell no cage owns gets every  *)
(* value not marked used in its row and column.                            *)
(***************************************************************************)
C14_CandidateSet ==
    CandidatesReturn
        => /\ grid[CellAt(pos)] = 0
           /\ Ascending(out)
           /\ RangeOf(out) = Allowed(CellAt(pos))
           /\ cageOf[CellAt(pos)] = 0 => RangeOf(out) = Unmarked(CellAt(pos))

\* getCandidates returns for a cell of a cage with a value excluded by its
\* column, a value the oracle rejected and a value it accepted
C14_Witness ==
    /\ CandidatesReturn
    /\ cageOf[CellAt(pos)] # 0
    /\ out # << >>
    /\ Unmarked(CellAt(pos)) \ RangeOf(out) # {}
    /\ \E w \in 1 .. n :
          colUsed[ColOf(pos)][w] /\ ~rowUsed[RowOf(pos)][w]

(***************************************************************************)
(* C15.  Candidate probing has no net effect: after any call of            *)
(* getCandidates on an unassigned cell, and hence after any call of        *)
(* selectNext, grid, rowUsed and colUsed are what they were before the     *)
(* call, whatever the oracle answered.                                     *)
(***************************************************************************)
\* between two probes, between two calls of getCandidates, and when
\* selectNext has returned; entry is what selectNext found when it started
C15_ProbingNoNetEffect ==
    pc \in {"probe", "select", "picked"} => Snapshot = entry

\* selectNext has returned a cell with two candidates on a 3 x 3 board
\* after probes the oracle rejected, and nothing has changed
C15_Witness ==
    /\ pc = "picked"
    /\ n = 3
    /\ pick # << >>
    /\ Len(pick[3]) = 2
    /\ Allowed(<<pick[1], pick[2]>>) # Unmarked(<<pick[1], pick[2]>>)
    /\ Snapshot = entry

(***************************************************************************)
(* C16.  MRV selection: when at least one cell is unassigned and every     *)
(* unassigned cell has a candidate, selectNext returns the unassigned cell *)
(* with the fewest candidates, the first in row-major order among equals,  *)
(* together with that cell's candidate list; it returns none when no cell  *)
(* is unassigned.                                                          *)
(***************************************************************************)
RowMajor(cell) == cell[1] * n + cell[2]

\* the unassigned cell with the fewest candidates, first in row-major order
Fewest ==
    CHOOSE cell \in Unassigned : \A other \in Unassigned :
        \/ Cardinality(Allowed(cell)) < Cardinality(Allowed(other))
        \/ /\ Cardinality(Allowed(cell)) = Cardinality(Allowed(other))
           /\ RowMajor(cell) <= RowMajor(other)

C16_MRVSelection ==
    pc = "picked"
        => /\ Unassigned = {} => pick = << >>
           /\ (Unassigned # {} /\ \A cell \in Unassigned : Allowed(cell) # {})
                 => /\ pick # << >>
                    /\ <<pick[1], pick[2]>> = Fewest
                    /\ Ascending(pick[3])
                    /\ RangeOf(pick[3]) = Allowed(Fewest)

\* selectNext has returned a cell of a 3 x 3 board with two candidates
\* that is not the first unassigned cell, and an other cell has as many
C16_Witness ==
    /\ pc = "picked"
    /\ n = 3
    /\ pick # << >>
    /\ Len(pick[3]) = 2
    /\ \A cell \in Unassigned : Allowed(cell) # {}
    /\ \E cell \in Unassigned :
          RowMajor(cell) < RowMajor(<<pick[1], pick[2]>>)
    /\ \E cell \in Unassigned :
          /\ RowMajor(cell) > RowMajor(<<pick[1], pick[2]>>)
          /\ Cardinality(Allowed(cell)) = 2

(***************************************************************************)
(* C17.  Backtracking undo: a call of backtrack that returns failure       *)
(* leaves grid, rowUsed and colUsed as they were when it was entered, each *)
(* trial placement and its marks being undone before the next candidate is *)
(* tried or failure is returned; a call that returns success undoes        *)
(* nothing.                                                                *)
(***************************************************************************)
\* what the call of frame f found on entry, with f's current candidate
\* placed and marked: what the call it makes finds on entry
WithPlacement(f) ==
    << Put(f.entry[1], <<f.r, f.c>>, f.cand[f.i]),
       SetUsed(f.entry[2], f.r, f.cand[f.i], TRUE),
       SetUsed(f.entry[3], f.c, f.cand[f.i], TRUE) >>

\* a call that got no cell from selectNext is about to return; a call in
\* its loop is about to try its next candidate or to return false; a
\* nested call has just returned false to the loop
C17_FailureRestores ==
    /\ (pc = "picked" /\ pick = << >>) => Snapshot = entry
    /\ pc = "try" => Snapshot = Top.entry
    /\ (pc = "return" /\ ~ret /\ stack # << >>)
          => Snapshot = WithPlacement(Top)

\* a step taken while true is being returned changes none of the three
C17_SuccessKeeps == (pc = "return" /\ ret) => UNCHANGED Snapshot

C17_BacktrackUndo == [](C17_FailureRestores) /\ [][C17_SuccessKeeps]_vars

\* a call on a 3 x 3 board has tried two candidates, both failed, and it
\* is about to return false with everything as it found it
C17_Witness ==
    /\ pc = "try"
    /\ n = 3
    /\ Len(Top.cand) = 2
    /\ Top.i = 3
    /\ Snapshot = Top.entry

(***************************************************************************)
(* C18.  Usage tables mirror the grid: for a puzzle whose cages partition  *)
(* the board, between pre-seeding steps, candidate probes and backtrack    *)
(* placements and undos, rowUsed[r][v] is true exactly when some cell of   *)
(* row r holds v and colUsed[c][v] exactly when some cell of column c      *)
(* holds v, for all r, c and v of 1 .. n.                                  *)
(***************************************************************************)
\* the structures exist: the call is past its construction and has a board
Built == pc \notin {"entry", "asked", "judged"} /\ grid # Unbuilt

Mirrors ==
    \A i \in 0 .. n - 1 : \A w \in 1 .. n :
        /\ rowUsed[i][w] <=> \E j \in 0 .. n - 1 : grid[<<i, j>>] = w
        /\ colUsed[i][w] <=> \E j \in 0 .. n - 1 : grid[<<j, i>>] = w

C18_UsageMirrorsGrid == (Built /\ Partitions(puzzle)) => Mirrors

\* a probe is in place on a 3 x 3 board on which the search has already
\* taken a placement back, and the tables agree with the grid
C18_Witness ==
    /\ pc = "probed"
    /\ n = 3
    /\ Partitions(puzzle)
    /\ stack # << >>
    /\ \E k \in 1 .. Len(stack) : stack[k].i > 1
    /\ Mirrors

(***************************************************************************)
(* C19.  Termination: solveKenKen eventually returns (a grid or no         *)
(* solution); every nested call of backtrack starts with strictly more     *)
(* assigned cells than the call that made it, so the recursion is never    *)
(* deeper than n * n.                                                      *)
(***************************************************************************)
AssignedIn(g) == Cardinality({cell \in Cells(n) : g[cell] # 0})

\* every call in its loop was entered with fewer assigned cells than the
\* call it made, down to the call now in its selectNext
C19_NestedStartsFuller ==
    /\ \A k \in 1 .. Len(stack) - 1 :
          AssignedIn(stack[k].entry[1]) < AssignedIn(stack[k + 1].entry[1])
    /\ (stack # << >> /\ entry # Unbuilt)
          => AssignedIn(Top.entry[1]) < AssignedIn(entry[1])

\* the calls of backtrack around the current one
C19_DepthBounded == Len(stack) <= n * n

C19_Returned == Done /\ result \in {"grid", "null"}

FailingCages ==
    {i \in 1 .. Len(cages) : ~cageValidPartial(grid, cages[i], n)}

C20_CompletionChecksAll ==
    /\ (pc = "return" /\ ret) => FailingCages = {}
    /\ (pc = "return" /\ Unassigned = {} /\ FailingCages # {}) => ~ret
    /\ (Done /\ result = "grid") => FailingCages = {}

\* a complete 3 x 3 grid whose one-cell '-' cage fails while the cage of
\* the cell placed last passes: the call returned false to its caller
C20_Witness ==
    /\ pc = "return"
    /\ n = 3
    /\ Unassigned = {}
    /\ stack # << >>
    /\ cageOf[<<Top.r, Top.c>>] \notin FailingCages
    /\ FailingCages # {}
    /\ ~ret

(***************************************************************************)
(* C21.  The caller establishes the partition precondition: after any      *)
(* sequence of GridInput events (drag selection, cage submit and cancel,   *)
(* cage removal, clear, load example, size change), the cell and toolbar   *)
(* events being closed while the cage dialog is open, the cages of the     *)
(* current puzzle are pairwise disjoint and lie inside the size x size     *)
(* grid, and solveKenKen is invoked only when every cell is covered, so    *)
(* that every puzzle passed to the solver is an exact partition.           *)
(***************************************************************************)
CagesDisjoint ==
    \A i, j \in 1 .. Len(cages) :
        i # j => CellsOfCage(cages[i]) \cap CellsOfCage(cages[j]) = {}

CagesInside ==
    \A i \in 1 .. Len(cages) : CellsOfCage(cages[i]) \subseteq Cells(gridSize)

\* solveKenKen has just been called
Invoked == pc = "entry"

C21_CallerPartitions ==
    /\ CagesDisjoint
    /\ CagesInside
    /\ Invoked => Partitions(puzzle)

(***************************************************************************)
(* C22.  Latin-square invariant of the search state: for a puzzle whose    *)
(* cages partition the board, in every state reached during solveKenKen    *)
(* (after pre-seeding, inside candidate probes, after each placement and   *)
(* each undo) no row and no column of the grid holds the same non-zero     *)
(* value twice.                                                            *)
(***************************************************************************)
NoRepeat ==
    \A i, a, b \in 0 .. n - 1 :
        a # b => /\ (grid[<<i, a>>] # 0 => grid[<<i, a>>] # grid[<<i, b>>])
                 /\ (grid[<<a, i>>] # 0 => grid[<<a, i>>] # grid[<<b, i>>])

C22_LatinSearchState == (Built /\ Partitions(puzzle)) => NoRepeat

\* a probe is in place on a 3 x 3 board beside other values of its row and
\* of its column, under a placement of the search
C22_Witness ==
    /\ pc = "probed"
    /\ n = 3
    /\ Partitions(puzzle)
    /\ stack # << >>
    /\ \E j \in 0 .. n - 1 :
          j # ColOf(pos) /\ grid[<<RowOf(pos), j>>] # 0
    /\ \E i \in 0 .. n - 1 :
          i # RowOf(pos) /\ grid[<<i, ColOf(pos)>>] # 0
    /\ NoRepeat

(***************************************************************************)
(* C23.  The second oracle checkpoint is redundant: in backtrack, for      *)
(* every candidate v of the cell selectNext returned, the call of          *)
(* cageValidPartial on the owning cage right after v is placed returns     *)
(* true, because the grid is then the grid on which getCandidates probed   *)
(* v; the re-check never rejects a candidate.                              *)
(***************************************************************************)
\* a candidate has just been placed and marked (lines 186-187)
Placed == pc = "placed"

C23_RecheckRedundant ==
    (Placed /\ cageOf[<<Top.r, Top.c>>] # 0)
        => /\ cageValidPartial(grid, cages[cageOf[<<Top.r, Top.c>>]], n)
           /\ Snapshot = WithPlacement(Top)

\* the second candidate of a cell of a 3 x 3 board is in place after the
\* first has failed, in a cage with an other cell assigned
C23_Witness ==
    /\ Placed
    /\ n = 3
    /\ Top.i = 2
    /\ cageOf[<<Top.r, Top.c>>] # 0
    /\ \E cell \in CellsOfCage(cages[cageOf[<<Top.r, Top.c>>]]) :
          cell # <<Top.r, Top.c>> /\ grid[cell] # 0
    /\ cageValidPartial(grid, cages[cageOf[<<Top.r, Top.c>>]], n)
====
